---------------------------- MODULE Spec2Model ----------------------------
(***************************************************************************)
(* ColibriToken: an OpenZeppelin-Stellar fungible token with an owner, a   *)
(* pause switch and owner-gated upgrades                                   *)
(* (src/_internal/contracts/fungible-token/src/contract.rs).               *)
(*                                                                         *)
(* The contract is a thin composition of library calls.  Each library      *)
(* function the contract calls (stellar_tokens::fungible::Base,            *)
(* stellar_access::ownable, stellar_contract_utils::pausable, release      *)
(* 0.4.1 named on line 2 of contract.rs) is modelled by an operator of the *)
(* same name that does what the library function does, panics included.    *)
(*                                                                         *)
(* A contract function is modelled as an operator from the storage `s` at  *)
(* the start of the invocation to a result [err, s]: err = "Ok" and the    *)
(* storage it leaves, or the error it panicked with and the storage as it  *)
(* was at the panic.  The host commits the storage of an invocation that   *)
(* returns and discards the writes of one that panics (Invoke).            *)
(*                                                                         *)
(* Error names: the host's failure of Address::require_auth is written     *)
(* "Unauthorized", pausable's EnforcedPause "ContractPaused", fungible's   *)
(* LessThanZero "InvalidAmount"; the other library errors keep their       *)
(* library names.                                                          *)
(***************************************************************************)
EXTENDS Integers, Sequences, FiniteSets, TLC

Addrs == {"a1", "a2"}
None == "none"

\* The code that `upgrade` can install: this contract's own wasm or another.
ColibriWasm == "colibri"
WasmHashes == {ColibriWasm, "other"}

(***************************************************************************)
(* i128 amounts.  TLC's integers are 32 bits wide, so an i128 is a sign    *)
(* and a magnitude of five base-10^8 limbs, least significant first.       *)
(***************************************************************************)
LimbBase == 10^8

I128(neg, mag) == [neg |-> neg, mag |-> mag]

Zero == I128(FALSE, <<0, 0, 0, 0, 0>>)
MinusOne == I128(TRUE, <<1, 0, 0, 0, 0>>)
\* i128::MAX = 2^127 - 1 = 170141183460469231731687303715884105727
I128Max == I128(FALSE, <<84105727, 73037158, 23173168, 83460469, 1701411>>)

RECURSIVE MagCmp(_, _, _)
\* -1, 0, 1 as magnitude a is below, equal to, above magnitude b (limbs i..1).
MagCmp(a, b, i) ==
    IF i = 0 THEN 0
    ELSE IF a[i] < b[i] THEN -1
    ELSE IF a[i] > b[i] THEN 1
    ELSE MagCmp(a, b, i - 1)

RECURSIVE MagAdd(_, _, _, _)
MagAdd(a, b, i, carry) ==
    IF i > Len(a) THEN <<>>
    ELSE LET t == a[i] + b[i] + carry
         IN  <<t % LimbBase>> \o MagAdd(a, b, i + 1, t \div LimbBase)

RECURSIVE MagSub(_, _, _, _)
\* a - b for magnitudes with a >= b.
MagSub(a, b, i, borrow) ==
    IF i > Len(a) THEN <<>>
    ELSE LET t == a[i] - b[i] - borrow
         IN  IF t < 0 THEN <<t + LimbBase>> \o MagSub(a, b, i + 1, 1)
                      ELSE <<t>> \o MagSub(a, b, i + 1, 0)

IsNeg(x) == x.neg

\* x < y on i128.
Lt(x, y) ==
    IF x.neg /\ ~y.neg THEN TRUE
    ELSE IF ~x.neg /\ y.neg THEN FALSE
    ELSE IF x.neg THEN MagCmp(x.mag, y.mag, Len(x.mag)) = 1
    ELSE MagCmp(x.mag, y.mag, Len(x.mag)) = -1

Le(x, y) == ~Lt(y, x)

\* x + y for x, y >= 0; may exceed i128::MAX (it still fits five limbs).
Plus(x, y) == I128(FALSE, MagAdd(x.mag, y.mag, 1, 0))

\* x - y for x >= y >= 0.
Minus(x, y) == I128(FALSE, MagSub(x.mag, y.mag, 1, 0))

\* i128::checked_add for x, y >= 0: `some` is FALSE on overflow.
checked_add(x, y) == [some |-> ~Lt(I128Max, Plus(x, y)), val |-> Plus(x, y)]

RECURSIVE Times(_, _)
Times(n, x) == IF n = 0 THEN Zero ELSE Plus(x, Times(n - 1, x))

RECURSIVE SumOver(_, _)
\* The sum of f[a] over the addresses a of set S.
SumOver(f, S) ==
    IF S = {} THEN Zero
    ELSE LET a == CHOOSE x \in S : TRUE
         IN  Plus(f[a], SumOver(f, S \ {a}))


(***************************************************************************)
(* Contract storage.                                                       *)
(***************************************************************************)
VARIABLES
    balances,       \* StorageKey::Balance(account): i128, absent = 0
    total_supply,   \* StorageKey::TotalSupply: i128
    allowances,     \* StorageKey::Allowance{owner, spender}: i128, absent = 0
    owner,          \* OwnableStorageKey::Owner: an address, or None when absent
    pending_owner,  \* OwnableStorageKey::PendingOwner: an address, or None
    paused_flag,    \* PausableStorageKey::Paused: absent = FALSE
    metadata,       \* the token metadata, None before set_metadata
    wasm,           \* the executable installed at the address, None before
    call            \* the last invocation: its entry point and how it ended

vars == <<balances, total_supply, allowances, owner, pending_owner,
          paused_flag, metadata, wasm, call>>

\* Everything the contract persists, as one value.
Storage ==
    [balances |-> balances, total_supply |-> total_supply,
     allowances |-> allowances, owner |-> owner,
     pending_owner |-> pending_owner, paused |-> paused_flag,
     metadata |-> metadata, wasm |-> wasm]

\* The storage of a freshly deployed instance, before __constructor runs.
EmptyStorage ==
    [balances |-> [a \in Addrs |-> Zero], total_supply |-> Zero,
     allowances |-> [p \in Addrs \X Addrs |-> Zero], owner |-> None,
     pending_owner |-> None, paused |-> FALSE, metadata |-> None,
     wasm |-> ColibriWasm]

Ok(s) == [err |-> "Ok", s |-> s]
Panic(e, s) == [err |-> e, s |-> s]

\* Statement sequencing: run F on the storage r left, unless r panicked.
Then(r, F(_)) == IF r.err = "Ok" THEN F(r.s) ELSE r

(***************************************************************************)
(* stellar_contract_utils::pausable                                        *)
(***************************************************************************)
pausable_paused(s) == s.paused

when_not_paused(s) ==
    IF pausable_paused(s) THEN Panic("ContractPaused", s) ELSE Ok(s)

when_paused(s) ==
    IF ~pausable_paused(s) THEN Panic("ExpectedPause", s) ELSE Ok(s)

\* Faulty variant of pausable_pause: the when_not_paused check is missing.
pausable_pause_unchecked(s) == Ok([s EXCEPT !.paused = TRUE])

pausable_pause(s) ==
    Then(when_not_paused(s), LAMBDA t : Ok([t EXCEPT !.paused = TRUE]))

\* Faulty variant of pausable_unpause: the flag is not cleared.
pausable_unpause_keeping_flag(s) ==
    Then(when_paused(s), LAMBDA t : Ok(t))

pausable_unpause(s) ==
    Then(when_paused(s), LAMBDA t : Ok([t EXCEPT !.paused = FALSE]))

(***************************************************************************)
(* stellar_access::ownable.  `signer` is the address whose authorization   *)
(* accompanies the invocation; a.require_auth() passes iff a = signer.     *)
(***************************************************************************)
require_auth(s, addr, signer) ==
    IF addr = signer THEN Ok(s) ELSE Panic("Unauthorized", s)

get_owner(s) == s.owner

enforce_owner_auth(s, signer) ==
    IF get_owner(s) = None THEN Panic("OwnerNotSet", s)
    ELSE require_auth(s, get_owner(s), signer)

set_owner(s, new_owner) == Ok([s EXCEPT !.owner = new_owner])

\* live_until_ledger as the library classifies it against the ledger: 0,
\* below the current sequence, valid, beyond the maximum.  The ledger sequence
\* is held fixed over a run, so a stored allowance or pending transfer does
\* not expire (expiry only removes entries; every state it leads to is also
\* reached by approve(.., 0, ..) or transfer_ownership(.., 0)).
LiveUntil == {"zero", "past", "live", "beyond"}

transfer_role(s, new, live_until_ledger) ==
    IF live_until_ledger = "zero" THEN
        IF s.pending_owner = None THEN Panic("NoPendingTransfer", s)
        ELSE IF s.pending_owner # new THEN Panic("InvalidPendingAccount", s)
        ELSE Ok([s EXCEPT !.pending_owner = None])
    ELSE IF live_until_ledger \in {"past", "beyond"} THEN
        Panic("InvalidLiveUntilLedger", s)
    ELSE Ok([s EXCEPT !.pending_owner = new])

\* Faulty variant of transfer_ownership: the new owner is authenticated
\* instead of the stored owner.
ownable_transfer_auth_new_owner(s, new_owner, live_until_ledger, signer) ==
    Then(require_auth(s, new_owner, signer),
         LAMBDA t : transfer_role(t, new_owner, live_until_ledger))

ownable_transfer_ownership(s, new_owner, live_until_ledger, signer) ==
    Then(enforce_owner_auth(s, signer),
         LAMBDA t : transfer_role(t, new_owner, live_until_ledger))

\* Faulty variant of accept_ownership: the pending transfer is cleared but
\* the owner is not replaced.
ownable_accept_keeping_owner(s, signer) ==
    IF s.pending_owner = None THEN Panic("NoPendingTransfer", s)
    ELSE Then(require_auth(s, s.pending_owner, signer),
              LAMBDA t : Ok([t EXCEPT !.pending_owner = None]))

ownable_accept_ownership(s, signer) ==
    IF s.pending_owner = None THEN Panic("NoPendingTransfer", s)
    ELSE Then(require_auth(s, s.pending_owner, signer),
              LAMBDA t : Ok([t EXCEPT !.owner = t.pending_owner,
                                      !.pending_owner = None]))

\* Faulty variant of renounce_ownership: a pending transfer is not checked.
ownable_renounce_ignoring_pending(s, signer) ==
    Then(enforce_owner_auth(s, signer),
         LAMBDA t : Ok([t EXCEPT !.owner = None]))

ownable_renounce_ownership(s, signer) ==
    Then(enforce_owner_auth(s, signer),
         LAMBDA t : IF t.pending_owner # None
                    THEN Panic("TransferInProgress", t)
                    ELSE Ok([t EXCEPT !.owner = None]))

(***************************************************************************)
(* stellar_tokens::fungible::Base                                          *)
(***************************************************************************)
Base_balance(s, account) == s.balances[account]
Base_total_supply(s) == s.total_supply
Base_allowance(s, own, spender) == s.allowances[<<own, spender>>]

Base_set_metadata(s, decimals, name, symbol) ==
    Ok([s EXCEPT !.metadata =
            [decimals |-> decimals, name |-> name, symbol |-> symbol]])

\* Faulty variant of update_from: a debit above the balance is skipped
\* instead of panicking.
update_from_skipping_overdraft(s, from, amount) ==
    IF from # None THEN
        IF Lt(Base_balance(s, from), amount) THEN Ok(s)
        ELSE Ok([s EXCEPT !.balances[from] = Minus(@, amount)])
    ELSE
        IF ~checked_add(Base_total_supply(s), amount).some
        THEN Panic("MathOverflow", s)
        ELSE Ok([s EXCEPT !.total_supply = checked_add(@, amount).val])

\* Base::update: the debit (or the supply increase of a mint) ...
update_from(s, from, amount) ==
    IF from # None THEN
        IF Lt(Base_balance(s, from), amount) THEN Panic("InsufficientBalance", s)
        ELSE Ok([s EXCEPT !.balances[from] = Minus(@, amount)])
    ELSE
        IF ~checked_add(Base_total_supply(s), amount).some
        THEN Panic("MathOverflow", s)
        ELSE Ok([s EXCEPT !.total_supply = checked_add(@, amount).val])

\* Faulty variant of update_to: a burn leaves the total supply as it was.
update_to_keeping_supply(s, to, amount) ==
    IF to # None THEN Ok([s EXCEPT !.balances[to] = Plus(@, amount)])
    ELSE Ok(s)

\* ... followed by the credit (or the supply decrease of a burn).
update_to(s, to, amount) ==
    IF to # None THEN Ok([s EXCEPT !.balances[to] = Plus(@, amount)])
    ELSE Ok([s EXCEPT !.total_supply = Minus(@, amount)])

\* Faulty variant of Base::update: the credit is computed from the balance
\* read before the debit was written.
Base_update_crediting_stale_balance(s, from, to, amount) ==
    IF IsNeg(amount) THEN Panic("InvalidAmount", s)
    ELSE Then(update_from(s, from, amount),
              LAMBDA t : IF to # None
                         THEN Ok([t EXCEPT !.balances[to] =
                                      Plus(Base_balance(s, to), amount)])
                         ELSE update_to(t, to, amount))

\* Faulty variant of update: an amount of zero is rejected like a negative one.
Base_update_rejecting_zero(s, from, to, amount) ==
    IF Le(amount, Zero) THEN Panic("InvalidAmount", s)
    ELSE Then(update_from(s, from, amount),
              LAMBDA t : update_to(t, to, amount))

Base_update(s, from, to, amount) ==
    IF IsNeg(amount) THEN Panic("InvalidAmount", s)
    ELSE Then(update_from(s, from, amount),
              LAMBDA t : update_to(t, to, amount))

Base_mint(s, to, amount) == Base_update(s, None, to, amount)

Base_set_allowance(s, own, spender, amount, live_until_ledger) ==
    IF IsNeg(amount) THEN Panic("InvalidAmount", s)
    ELSE IF \/ live_until_ledger = "beyond"
            \/ Lt(Zero, amount) /\ live_until_ledger \in {"zero", "past"}
         THEN Panic("InvalidLiveUntilLedger", s)
    ELSE Ok([s EXCEPT !.allowances[<<own, spender>>] = amount])

\* Faulty variant of spend_allowance: the allowance is checked but not
\* reduced.
Base_spend_allowance_not_reducing(s, own, spender, amount) ==
    IF IsNeg(amount) THEN Panic("InvalidAmount", s)
    ELSE IF Lt(Base_allowance(s, own, spender), amount)
         THEN Panic("InsufficientAllowance", s)
    ELSE Ok(s)

Base_spend_allowance(s, own, spender, amount) ==
    IF IsNeg(amount) THEN Panic("InvalidAmount", s)
    ELSE IF Lt(Base_allowance(s, own, spender), amount)
         THEN Panic("InsufficientAllowance", s)
    ELSE IF Lt(Zero, amount)
         THEN Base_set_allowance(s, own, spender,
                  Minus(Base_allowance(s, own, spender), amount), "live")
    ELSE Ok(s)

Base_approve(s, own, spender, amount, live_until_ledger, signer) ==
    Then(require_auth(s, own, signer),
         LAMBDA t : Base_set_allowance(t, own, spender, amount,
                                       live_until_ledger))

Base_transfer(s, from, to, amount, signer) ==
    Then(require_auth(s, from, signer),
         LAMBDA t : Base_update(t, from, to, amount))

Base_transfer_from(s, spender, from, to, amount, signer) ==
    Then(require_auth(s, spender, signer),
         LAMBDA t : Then(Base_spend_allowance(t, from, spender, amount),
                         LAMBDA u : Base_update(u, from, to, amount)))

Base_burn(s, from, amount, signer) ==
    Then(require_auth(s, from, signer),
         LAMBDA t : Base_update(t, from, None, amount))

Base_burn_from(s, spender, from, amount, signer) ==
    Then(require_auth(s, spender, signer),
         LAMBDA t : Then(Base_spend_allowance(t, from, spender, amount),
                         LAMBDA u : Base_update(u, from, None, amount)))

(***************************************************************************)
(* The contract, contract.rs.                                              *)
(*                                                                         *)
(* #[only_owner] and #[when_not_paused] are attribute macros that each     *)
(* re-emit the function with their check put in front of the body they     *)
(* receive.  Rust expands the attributes of an item from the first to the  *)
(* last, so on `mint` only_owner wraps the body first and when_not_paused, *)
(* expanded after it, puts its check in front of the owner check: the      *)
(* pause check is the first statement that runs.                           *)
(***************************************************************************)
\* 100000 tokens of 18 decimals = 10^23 base units, contract.rs line 20.
InitialSupply == I128(FALSE, <<0, 0, 10^7, 0, 0>>)

\* Faulty variant of __constructor: the supply is minted to the owner.
constructor_minting_to_owner(s, recipient, new_owner) ==
    Then(Base_set_metadata(s, 18, "ColibriToken", "CLBT"),
         LAMBDA t : Then(Base_mint(t, new_owner, InitialSupply),
                         LAMBDA u : set_owner(u, new_owner)))

\* Faulty variant of __constructor: the metadata is written with the
\* 7 decimals of a Stellar asset.
constructor_with_seven_decimals(s, recipient, new_owner) ==
    Then(Base_set_metadata(s, 7, "ColibriToken", "CLBT"),
         LAMBDA t : Then(Base_mint(t, recipient, InitialSupply),
                         LAMBDA u : set_owner(u, new_owner)))

constructor(s, recipient, new_owner) ==
    Then(Base_set_metadata(s, 18, "ColibriToken", "CLBT"),
         LAMBDA t : Then(Base_mint(t, recipient, InitialSupply),
                         LAMBDA u : set_owner(u, new_owner)))

\* Faulty variant of mint: #[only_owner] is missing.
mint_without_only_owner(s, account, amount, signer) ==
    Then(when_not_paused(s), LAMBDA t : Base_mint(t, account, amount))

\* Faulty variant of mint: the owner check runs before the pause check.
mint_only_owner_first(s, account, amount, signer) ==
    Then(enforce_owner_auth(s, signer),
         LAMBDA t : Then(when_not_paused(t),
                         LAMBDA u : Base_mint(u, account, amount)))

mint(s, account, amount, signer) ==
    Then(when_not_paused(s),
         LAMBDA t : Then(enforce_owner_auth(t, signer),
                         LAMBDA u : Base_mint(u, account, amount)))

transfer(s, from, to, amount, signer) ==
    Then(when_not_paused(s),
         LAMBDA t : Base_transfer(t, from, to, amount, signer))

\* Faulty variant of transfer_from: #[when_not_paused] is missing.
transfer_from_without_when_not_paused(s, spender, from, to, amount, signer) ==
    Base_transfer_from(s, spender, from, to, amount, signer)

transfer_from(s, spender, from, to, amount, signer) ==
    Then(when_not_paused(s),
         LAMBDA t : Base_transfer_from(t, spender, from, to, amount, signer))

\* FungibleToken::approve is not overridden: #[default_impl] supplies it.
approve(s, own, spender, amount, live_until_ledger, signer) ==
    Base_approve(s, own, spender, amount, live_until_ledger, signer)

\* Faulty variant of burn: #[when_not_paused] is missing.
burn_without_when_not_paused(s, from, amount, signer) ==
    Base_burn(s, from, amount, signer)

burn(s, from, amount, signer) ==
    Then(when_not_paused(s),
         LAMBDA t : Base_burn(t, from, amount, signer))

burn_from(s, spender, from, amount, signer) ==
    Then(when_not_paused(s),
         LAMBDA t : Base_burn_from(t, spender, from, amount, signer))

\* Faulty variant of _require_auth: the operator argument is authenticated
\* instead of the stored owner.
require_auth_of_operator(s, operator, signer) ==
    require_auth(s, operator, signer)

UpgradeableInternal_require_auth(s, operator, signer) ==
    enforce_owner_auth(s, signer)

\* Faulty variant of upgrade: the swap also clears the paused flag.
upgrade_clearing_pause(s, new_wasm_hash, operator, signer) ==
    Then(UpgradeableInternal_require_auth(s, operator, signer),
         LAMBDA t : Ok([t EXCEPT !.wasm = new_wasm_hash, !.paused = FALSE]))

\* #[derive(Upgradeable)]: upgrade(new_wasm_hash, operator).
upgrade(s, new_wasm_hash, operator, signer) ==
    Then(UpgradeableInternal_require_auth(s, operator, signer),
         LAMBDA t : Ok([t EXCEPT !.wasm = new_wasm_hash]))

paused(s) == pausable_paused(s)

\* Faulty variant of pause: the `caller` argument is authenticated instead
\* of the stored owner.
pause_auth_caller(s, caller, signer) ==
    Then(require_auth(s, caller, signer), LAMBDA t : pausable_pause(t))

pause(s, caller, signer) ==
    Then(enforce_owner_auth(s, signer), LAMBDA t : pausable_pause(t))

unpause(s, caller, signer) ==
    Then(enforce_owner_auth(s, signer), LAMBDA t : pausable_unpause(t))

\* impl Ownable for ColibriToken {} with #[default_impl].
transfer_ownership(s, new_owner, live_until_ledger, signer) ==
    ownable_transfer_ownership(s, new_owner, live_until_ledger, signer)

accept_ownership(s, signer) == ownable_accept_ownership(s, signer)

renounce_ownership(s, signer) == ownable_renounce_ownership(s, signer)

(***************************************************************************)
(* The state machine: one action per entry point.                          *)
(***************************************************************************)
\* The amounts callers pass.
Amounts == {MinusOne, Zero, InitialSupply, I128Max}
\* The amounts callers approve (without i128::MAX, which together with
\* partial spends would make the set of allowance values unbounded).
ApproveAmounts == {MinusOne, Zero, InitialSupply}

\* The (owner, spender) pairs callers approve: every pair of two addresses.
ApprovePairs == {p \in Addrs \X Addrs : p[1] # p[2]}

\* The model follows the token while its supply is at most MaxLots initial
\* supplies.
MaxLots == 2

MaxSupply == Times(MaxLots, InitialSupply)

WithinBounds(s) == Le(s.total_supply, MaxSupply)

\* Faulty variant of Commit: the writes made before a panic are kept.
Commit_keeping_writes(r) == r.s

\* The host: an invocation that returns commits its writes, one that panics
\* has all its writes discarded.
Commit(r) == IF r.err = "Ok" THEN r.s ELSE Storage

\* What `call` records of an invocation: the entry point, the error it ended
\* with ("Ok" when it returned) and whether its amount argument was > 0.
Call(op, err, positive) == [op |-> op, err |-> err, positive |-> positive]

Invoke(op, amount, r) ==
    /\ wasm = ColibriWasm
    /\ \E res \in {r} :
         \E c \in {Commit(res)} :
            /\ WithinBounds(c)
            /\ balances' = c.balances
            /\ total_supply' = c.total_supply
            /\ allowances' = c.allowances
            /\ owner' = c.owner
            /\ pending_owner' = c.pending_owner
            /\ paused_flag' = c.paused
            /\ metadata' = c.metadata
            /\ wasm' = c.wasm
            /\ call' = Call(op, res.err, Lt(Zero, amount))

\* Before deployment no code is installed and the storage is empty.
Init ==
    /\ balances = EmptyStorage.balances
    /\ total_supply = EmptyStorage.total_supply
    /\ allowances = EmptyStorage.allowances
    /\ owner = EmptyStorage.owner
    /\ pending_owner = EmptyStorage.pending_owner
    /\ paused_flag = EmptyStorage.paused
    /\ metadata = EmptyStorage.metadata
    /\ wasm = None
    /\ call = Call("none", "Ok", FALSE)

\* Deployment installs the code and runs __constructor, once.
Deploy(recipient, new_owner) ==
    /\ wasm = None
    /\ \E res \in {constructor(EmptyStorage, recipient, new_owner)} :
            /\ res.err = "Ok"
            /\ balances' = res.s.balances
            /\ total_supply' = res.s.total_supply
            /\ allowances' = res.s.allowances
            /\ owner' = res.s.owner
            /\ pending_owner' = res.s.pending_owner
            /\ paused_flag' = res.s.paused
            /\ metadata' = res.s.metadata
            /\ wasm' = res.s.wasm
            /\ call' = Call("__constructor", res.err, FALSE)

Constructor == \E recipient \in Addrs, new_owner \in Addrs :
                   Deploy(recipient, new_owner)

Mint ==
    \E account \in Addrs, amount \in Amounts, signer \in Addrs :
        Invoke("mint", amount, mint(Storage, account, amount, signer))

Transfer ==
    \E from \in Addrs, to \in Addrs, amount \in Amounts, signer \in Addrs :
        Invoke("transfer", amount, transfer(Storage, from, to, amount, signer))

TransferFrom ==
    \E spender \in Addrs, from \in Addrs, to \in Addrs, amount \in Amounts,
       signer \in Addrs :
        Invoke("transfer_from", amount,
               transfer_from(Storage, spender, from, to, amount, signer))

Approve ==
    \E p \in ApprovePairs, amount \in ApproveAmounts,
       live_until_ledger \in LiveUntil, signer \in Addrs :
        Invoke("approve", amount,
               approve(Storage, p[1], p[2], amount, live_until_ledger, signer))

Burn ==
    \E from \in Addrs, amount \in Amounts, signer \in Addrs :
        Invoke("burn", amount, burn(Storage, from, amount, signer))

BurnFrom ==
    \E spender \in Addrs, from \in Addrs, amount \in Amounts, signer \in Addrs :
        Invoke("burn_from", amount,
               burn_from(Storage, spender, from, amount, signer))

Upgrade ==
    \E new_wasm_hash \in WasmHashes, operator \in Addrs, signer \in Addrs :
        Invoke("upgrade", Zero,
               upgrade(Storage, new_wasm_hash, operator, signer))

Pause ==
    \E caller \in Addrs, signer \in Addrs :
        Invoke("pause", Zero, pause(Storage, caller, signer))

Unpause ==
    \E caller \in Addrs, signer \in Addrs :
        Invoke("unpause", Zero, unpause(Storage, caller, signer))

TransferOwnership ==
    \E new_owner \in Addrs, live_until_ledger \in LiveUntil, signer \in Addrs :
        Invoke("transfer_ownership", Zero,
               transfer_ownership(Storage, new_owner, live_until_ledger, signer))

AcceptOwnership ==
    \E signer \in Addrs :
        Invoke("accept_ownership", Zero, accept_ownership(Storage, signer))

RenounceOwnership ==
    \E signer \in Addrs :
        Invoke("renounce_ownership", Zero, renounce_ownership(Storage, signer))

Next ==
    \/ Constructor
    \/ Mint
    \/ Transfer
    \/ TransferFrom
    \/ Approve
    \/ Burn
    \/ BurnFrom
    \/ Upgrade
    \/ Pause
    \/ Unpause
    \/ TransferOwnership
    \/ AcceptOwnership
    \/ RenounceOwnership

Spec == Init /\ [][Next]_vars

(***************************************************************************)
(* Properties.                                                             *)
(***************************************************************************)
\* The persisted state without the code slot.
DataVars == <<balances, total_supply, allowances, owner, pending_owner,
              paused_flag, metadata>>
StoreVars == <<DataVars, wasm>>

\* A mint of a positive amount that the stored owner did not authorize.
MintNotByOwner(account, amount, signer) ==
    /\ Lt(Zero, amount)
    /\ owner # None
    /\ signer # owner
    /\ Invoke("mint", amount, mint(Storage, account, amount, signer))

\* C1 as stated: in every reachable state a mint(account, amount) with
\* amount > 0 that the stored owner did not authorize fails with Unauthorized
\* and leaves balances, total supply, allowances, owner and paused flag as
\* they were.
C1_MintNotByOwnerUnauthorized ==
    [][call'.op = "mint" =>
       \A account \in Addrs, amount \in Amounts, signer \in Addrs :
          MintNotByOwner(account, amount, signer)
          => /\ call'.err = "Unauthorized"
             /\ UNCHANGED <<balances, total_supply, allowances, owner,
                            paused_flag>>]_vars

\* C1 amended: such a mint always fails and leaves balances, total supply,
\* allowances, owner and paused flag as they were; the error is Unauthorized
\* while the contract is not paused and ContractPaused while it is paused.
C1_MintNotByOwnerFails ==
    [][call'.op = "mint" =>
       \A account \in Addrs, amount \in Amounts, signer \in Addrs :
          MintNotByOwner(account, amount, signer)
          => /\ call'.err = IF paused_flag THEN "ContractPaused"
                                           ELSE "Unauthorized"
             /\ UNCHANGED <<balances, total_supply, allowances, owner,
                            paused_flag>>]_vars

C1_Witness ==
    /\ call = Call("mint", "Unauthorized", TRUE)
    /\ owner # None
    /\ ~paused_flag

\* The five entry points that carry #[when_not_paused].
TokenOps == {"mint", "transfer", "transfer_from", "burn", "burn_from"}

\* C2: while paused() is true each of mint, transfer, transfer_from, burn and
\* burn_from fails with ContractPaused for every caller and every argument
\* (call'.op names the entry point a step invoked, whatever its arguments),
\* and no balance and not the total supply changes across a step that starts
\* and ends paused.
C2_PausedBlocksTokenOps ==
    [][/\ (paused_flag /\ call'.op \in TokenOps)
            => call'.err = "ContractPaused"
       /\ (paused_flag /\ paused_flag')
            => UNCHANGED <<balances, total_supply>>]_vars

C2_Witness ==
    /\ paused_flag
    /\ call.op \in TokenOps
    /\ call.err = "ContractPaused"
    /\ call.positive

\* A pause (unpause) call authorized by the owner while the flag is already
\* set (already clear).
RedundantPause(caller) ==
    /\ paused_flag
    /\ owner # None
    /\ Invoke("pause", Zero, pause(Storage, caller, owner))

RedundantUnpause(caller) ==
    /\ ~paused_flag
    /\ owner # None
    /\ Invoke("unpause", Zero, unpause(Storage, caller, owner))

\* C3 as stated: the owner's pause while already paused succeeds with no
\* error, paused() stays true and all other state is unchanged; likewise
\* unpause while already unpaused succeeds and leaves paused() false.
C3_RedundantPauseSucceeds ==
    [][call'.op \in {"pause", "unpause"} =>
       \A caller \in Addrs :
          /\ RedundantPause(caller)
               => call'.err = "Ok" /\ paused_flag' /\ UNCHANGED StoreVars
          /\ RedundantUnpause(caller)
               => call'.err = "Ok" /\ ~paused_flag' /\ UNCHANGED StoreVars]_vars

\* C3 amended: the owner's pause while already paused fails with
\* ContractPaused (the library's EnforcedPause) and unpause while already
\* unpaused fails with ExpectedPause; either way the flag keeps its value and
\* all other state is unchanged.
C3_RedundantPauseFails ==
    [][call'.op \in {"pause", "unpause"} =>
       \A caller \in Addrs :
          /\ RedundantPause(caller)
               => /\ call'.err = "ContractPaused"
                  /\ paused_flag'
                  /\ UNCHANGED StoreVars
          /\ RedundantUnpause(caller)
               => /\ call'.err = "ExpectedPause"
                  /\ ~paused_flag'
                  /\ UNCHANGED StoreVars]_vars

C3_Witness ==
    /\ call = Call("pause", "ContractPaused", FALSE)
    /\ paused_flag

\* C4: the paused flag changes only in a pause or unpause call that the
\* stored owner authorized; a pause or unpause the stored owner did not
\* authorize fails with Unauthorized and leaves the flag as it was, whatever
\* the caller argument; no other operation changes the flag.
C4_PausedFlagOwnerGated ==
    [][/\ paused_flag' # paused_flag
            => /\ owner # None
               /\ \E caller \in Addrs :
                     \/ Invoke("pause", Zero, pause(Storage, caller, owner))
                     \/ Invoke("unpause", Zero, unpause(Storage, caller, owner))
       /\ call'.op \in {"pause", "unpause"} =>
          \A caller \in Addrs, signer \in Addrs :
             ( /\ owner # None
               /\ signer # owner
               /\ \/ Invoke("pause", Zero, pause(Storage, caller, signer))
                  \/ Invoke("unpause", Zero, unpause(Storage, caller, signer)) )
             => call'.err = "Unauthorized" /\ paused_flag' = paused_flag
       /\ call'.op \notin {"pause", "unpause"}
            => paused_flag' = paused_flag]_vars

C4_Witness ==
    /\ call.op \in {"pause", "unpause"}
    /\ call.err = "Unauthorized"

RECURSIVE MagTimesTen(_, _, _)
MagTimesTen(a, i, carry) ==
    IF i > Len(a) THEN <<>>
    ELSE LET t == a[i] * 10 + carry
         IN  <<t % LimbBase>> \o MagTimesTen(a, i + 1, t \div LimbBase)

RECURSIVE TimesTenPow(_, _)
\* x * 10^n, for results that fit five limbs.
TimesTenPow(x, n) ==
    IF n = 0 THEN x
    ELSE TimesTenPow(I128(FALSE, MagTimesTen(x.mag, 1, 0)), n - 1)

\* 100000 * 10^18 = 10^5 * 10^18, computed digit by digit from 1.
HundredThousandTokens ==
    TimesTenPow(TimesTenPow(I128(FALSE, <<1, 0, 0, 0, 0>>), 18), 5)

\* C5: immediately after constructor(recipient, owner), Balance(a) is
\* 100000 * 10^18 for a = recipient and 0 for every other address, the total
\* supply is 100000 * 10^18, owner() is the owner argument and paused() is
\* false; also when recipient = owner.
C5_ConstructorState ==
    [][call'.op = "__constructor" =>
       \A recipient \in Addrs, new_owner \in Addrs :
          Deploy(recipient, new_owner)
          => /\ \A a \in Addrs :
                   balances'[a] = IF a = recipient THEN HundredThousandTokens
                                                   ELSE Zero
             /\ total_supply' = HundredThousandTokens
             /\ owner' = new_owner
             /\ ~paused_flag']_vars

C5_Witness ==
    /\ call.op = "__constructor"
    /\ \E a \in Addrs : a # owner /\ balances[a] = HundredThousandTokens

C7_TotalSupplyIsSumOfBalances ==
    total_supply = SumOver(balances, Addrs)

C7_Witness ==
    /\ call = Call("burn_from", "Ok", TRUE)
    /\ total_supply # Zero

\* C8: an upgrade that the stored owner did not authorize fails with
\* Unauthorized, whatever operator address is passed, and leaves the contract
\* code, every balance, the owner and the paused flag unchanged.
C8_UpgradeNotByOwnerFails ==
    [][call'.op = "upgrade" =>
       \A new_wasm_hash \in WasmHashes, operator \in Addrs, signer \in Addrs :
          ( /\ owner # None
            /\ signer # owner
            /\ Invoke("upgrade", Zero,
                      upgrade(Storage, new_wasm_hash, operator, signer)) )
          => /\ call'.err = "Unauthorized"
             /\ UNCHANGED <<wasm, balances, owner, paused_flag>>]_vars

C8_Witness ==
    /\ call = Call("upgrade", "Unauthorized", FALSE)
    /\ wasm = ColibriWasm

\* C9: a successful upgrade, paused or not, is one the stored owner
\* authorized and replaces only the contract code: every balance, the total
\* supply, every allowance, the owner and the paused flag are the same after
\* it as before it.
C9_UpgradeKeepsData ==
    [][(call'.op = "upgrade" /\ call'.err = "Ok")
       => /\ UNCHANGED DataVars
          /\ owner # None
          /\ \E operator \in Addrs :
                Invoke("upgrade", Zero, upgrade(Storage, wasm', operator, owner))]_vars

C9_Witness ==
    /\ call = Call("upgrade", "Ok", FALSE)
    /\ wasm # ColibriWasm
    /\ paused_flag

\* C10 as stated: in every state after construction an owner address is
\* stored, whatever public operations have run.
C10_OwnerNeverAbsent ==
    wasm # None => owner # None

\* C10 amended: the constructor stores an owner, and a stored owner becomes
\* absent only by a successful renounce_ownership call that the stored owner
\* authorized while no ownership transfer was pending; no other operation
\* removes the owner.
C10_OwnerAbsentOnlyByRenounce ==
    [][/\ call'.op = "__constructor" => owner' \in Addrs
       /\ (owner # None /\ owner' = None)
            => /\ call' = Call("renounce_ownership", "Ok", FALSE)
               /\ pending_owner = None
               /\ Invoke("renounce_ownership", Zero,
                         renounce_ownership(Storage, owner))]_vars

C10_Witness ==
    /\ call = Call("renounce_ownership", "Ok", FALSE)
    /\ owner = None

C12_TransferAboveBalanceFails ==
    [][(call'.op = "transfer" /\ ~paused_flag) =>
       \A from \in Addrs, to \in Addrs, amount \in Amounts :
          ( /\ Lt(balances[from], amount)
            /\ Invoke("transfer", amount,
                      transfer(Storage, from, to, amount, from)) )
          => /\ call'.err = "InsufficientBalance"
             /\ balances'[from] = balances[from]
             /\ balances'[to] = balances[to]]_vars

\* A failed transfer above a balance that is not zero.
C12_Witness ==
    /\ call = Call("transfer", "InsufficientBalance", TRUE)
    /\ ~paused_flag
    /\ \A a \in Addrs : balances[a] # Zero

\* C13: while unpaused, for all addresses A, B and every x with
\* 0 < x <= Balance(A), a successful transfer(A, B, x) followed directly by
\* transfer(B, A, x) also succeeds and restores the balances of A and B and
\* the total supply to their values before the first transfer.  The step is
\* the first transfer; the second is applied to the storage the step leaves.
C13_TransferRoundTrip ==
    [][(call' = Call("transfer", "Ok", TRUE) /\ ~paused_flag) =>
       \A A \in Addrs, B \in Addrs, x \in Amounts :
          ( /\ Lt(Zero, x)
            /\ Le(x, balances[A])
            /\ Invoke("transfer", x, transfer(Storage, A, B, x, A)) )
          => /\ transfer(Storage', B, A, x, B).err = "Ok"
             /\ transfer(Storage', B, A, x, B).s.balances = balances
             /\ transfer(Storage', B, A, x, B).s.total_supply = total_supply]_vars

\* A successful transfer of a positive amount has emptied a balance.
C13_Witness ==
    /\ call = Call("transfer", "Ok", TRUE)
    /\ ~paused_flag
    /\ \E a \in Addrs : balances[a] = Zero

\* C14: in every reachable unpaused state, for all spender, from, to and
\* amount, the call transfer_from(spender, from, to, amount) authorized by the
\* spender fails with InsufficientAllowance when
\* Allowance(from, spender) < amount, leaving balances and allowances
\* unchanged; and when it succeeds, it leaves Allowance(from, spender)
\* decreased by exactly amount (no other allowance changes, none grows),
\* Balance(from) debited by amount, Balance(to) credited by amount and the
\* total supply unchanged.
C14_TransferFromSpendsAllowance ==
    (wasm = ColibriWasm /\ ~paused_flag) =>
    \A spender \in Addrs, from \in Addrs, to \in Addrs, amount \in Amounts :
       LET r == transfer_from(Storage, spender, from, to, amount, spender)
       IN  /\ Lt(allowances[<<from, spender>>], amount)
              => /\ r.err = "InsufficientAllowance"
                 /\ Commit(r).balances = balances
                 /\ Commit(r).allowances = allowances
           /\ r.err = "Ok"
              => /\ Commit(r).allowances =
                      [allowances EXCEPT ![<<from, spender>>] =
                           Minus(@, amount)]
                 /\ Commit(r).balances =
                      [[balances EXCEPT ![from] = Minus(@, amount)]
                           EXCEPT ![to] = Plus(@, amount)]
                 /\ Commit(r).total_supply = total_supply

\* A successful transfer_from of a positive amount between two addresses
\* that used up the allowance.
C14_Witness ==
    /\ call = Call("transfer_from", "Ok", TRUE)
    /\ ~paused_flag
    /\ \A p \in ApprovePairs : allowances[p] = Zero
    /\ \A a \in Addrs : balances[a] # Zero


\* C15 as stated: a mint(account, amount) call authorized by the owner while
\* unpaused fails with InvalidAmount for every amount <= 0, amount = 0
\* included, and leaves Balance(account) and the total supply unchanged.
C15_MintNonPositiveFails ==
    [][(call'.op = "mint" /\ ~call'.positive /\ ~paused_flag
            /\ owner # None) =>
       \A account \in Addrs, amount \in Amounts :
          ( /\ Le(amount, Zero)
            /\ Invoke("mint", amount, mint(Storage, account, amount, owner)) )
          => /\ call'.err = "InvalidAmount"
             /\ balances'[account] = balances[account]
             /\ UNCHANGED total_supply]_vars

\* C15 amended: a mint(account, amount) call authorized by the owner while
\* unpaused fails with InvalidAmount for every amount < 0, and succeeds for
\* amount = 0; in both cases Balance(account) and the total supply are
\* unchanged.
C15_MintNegativeFailsZeroSucceeds ==
    [][(call'.op = "mint" /\ ~call'.positive /\ ~paused_flag
            /\ owner # None) =>
       \A account \in Addrs, amount \in Amounts :
          ( /\ Le(amount, Zero)
            /\ Invoke("mint", amount, mint(Storage, account, amount, owner)) )
          => /\ call'.err = IF Lt(amount, Zero) THEN "InvalidAmount" ELSE "Ok"
             /\ balances'[account] = balances[account]
             /\ UNCHANGED total_supply]_vars

\* A mint of a non-positive amount has succeeded while unpaused.
C15_Witness ==
    /\ call = Call("mint", "Ok", FALSE)
    /\ ~paused_flag
    /\ owner # None

\* C16 as stated: after the owner has paused, every owner mint fails with
\* ContractPaused and leaves balances and supply unchanged, and the flag stays
\* set until a successful unpause; once the owner has unpaused, paused() is
\* false and an owner mint(account, amount) succeeds for every amount > 0,
\* increasing Balance(account) and the total supply by exactly amount and
\* leaving every other balance unchanged.
C16_PauseReversibleForMint ==
    [][   /\ (paused_flag /\ call'.op = "mint" /\ owner # None) =>
             \A account \in Addrs, amount \in Amounts :
                Invoke("mint", amount, mint(Storage, account, amount, owner))
                => /\ call'.err = "ContractPaused"
                   /\ UNCHANGED <<balances, total_supply>>
          /\ (paused_flag /\ ~paused_flag')
             => call' = Call("unpause", "Ok", FALSE)
          /\ (call' = Call("unpause", "Ok", FALSE) /\ owner' # None) =>
             /\ ~paused(Storage')
             /\ \A account \in Addrs, amount \in Amounts :
                   (Lt(Zero, amount))
                   => LET r == mint(Storage', account, amount, owner')
                      IN  /\ r.err = "Ok"
                          /\ Commit(r).balances =
                               [balances' EXCEPT ![account] = Plus(@, amount)]
                          /\ Commit(r).total_supply =
                               Plus(total_supply', amount)]_vars

\* C16 amended: as above, for every amount > 0 that the total supply can
\* take without exceeding the largest 128-bit signed integer.
C16_PauseReversibleForMintWithoutOverflow ==
    [][   /\ (paused_flag /\ call'.op = "mint" /\ owner # None) =>
             \A account \in Addrs, amount \in Amounts :
                Invoke("mint", amount, mint(Storage, account, amount, owner))
                => /\ call'.err = "ContractPaused"
                   /\ UNCHANGED <<balances, total_supply>>
          /\ (paused_flag /\ ~paused_flag')
             => call' = Call("unpause", "Ok", FALSE)
          /\ (call' = Call("unpause", "Ok", FALSE) /\ owner' # None) =>
             /\ ~paused(Storage')
             /\ \A account \in Addrs, amount \in Amounts :
                   (Lt(Zero, amount)
                      /\ checked_add(total_supply', amount).some)
                   => LET r == mint(Storage', account, amount, owner')
                      IN  /\ r.err = "Ok"
                          /\ Commit(r).balances =
                               [balances' EXCEPT ![account] = Plus(@, amount)]
                          /\ Commit(r).total_supply =
                               Plus(total_supply', amount)]_vars

\* The owner has just unpaused a contract that had been paused.
C16_Witness ==
    /\ call = Call("unpause", "Ok", FALSE)
    /\ ~paused_flag
    /\ owner # None

\* C17: the token metadata is written exactly once, by the constructor (which
\* runs only on the contract not yet deployed), as
\* decimals = 18, name = "ColibriToken", symbol = "CLBT"; no later call (mint,
\* transfers, approvals, burns, pause, unpause, ownership transfer, upgrade),
\* successful or failed, changes it.
C17_MetadataSetOnceByConstructor ==
    [][/\ call'.op = "__constructor"
          => /\ wasm = None
             /\ metadata' = [decimals |-> 18, name |-> "ColibriToken",
                             symbol |-> "CLBT"]
       /\ call'.op # "__constructor"
          => /\ metadata' = metadata
             /\ metadata = [decimals |-> 18, name |-> "ColibriToken",
                            symbol |-> "CLBT"]]_vars

\* Ownership has just been handed over on a paused contract whose supply
\* and allowances are no longer those the constructor left.
C17_Witness ==
    /\ call = Call("accept_ownership", "Ok", FALSE)
    /\ paused_flag
    /\ total_supply # InitialSupply
    /\ \E p \in ApprovePairs : allowances[p] # Zero
    /\ metadata.decimals = 18

\* C18 as stated: while the contract is paused, no call changes an allowance
\* unless the contract owner authorized it; this includes approve.
C18_PausedAllowancesOwnerGated ==
    [][paused_flag =>
       /\ call'.op # "approve" => UNCHANGED allowances
       /\ (call'.op = "approve" /\ allowances' # allowances) =>
          \A p \in ApprovePairs, amount \in ApproveAmounts,
             live_until_ledger \in LiveUntil, signer \in Addrs :
             Invoke("approve", amount,
                    approve(Storage, p[1], p[2], amount, live_until_ledger,
                            signer))
             => signer = owner]_vars

\* C18 amended: while the contract is paused, no call other than approve
\* changes an allowance (transfer_from and burn_from, which spend
\* allowances, are gated by the paused flag); approve is gated neither by the
\* paused flag nor by the contract owner's authorization but by the
\* authorization of the holder whose allowance it sets, and changes only
\* Allowance(holder, spender), to the approved amount.
C18_PausedAllowancesChangeOnlyByHolderApprove ==
    [][paused_flag =>
       /\ call'.op # "approve" => UNCHANGED allowances
       /\ (call'.op = "approve" /\ allowances' # allowances) =>
          \A p \in ApprovePairs, amount \in ApproveAmounts,
             live_until_ledger \in LiveUntil, signer \in Addrs :
             Invoke("approve", amount,
                    approve(Storage, p[1], p[2], amount, live_until_ledger,
                            signer))
             => /\ signer = p[1]
                /\ allowances' = [allowances EXCEPT ![p] = amount]]_vars

\* On the paused contract an approve has just set a positive allowance, and
\* the contract owner has granted none: the approving holder is not the owner.
C18_Witness ==
    /\ paused_flag
    /\ call = Call("approve", "Ok", TRUE)
    /\ owner # None
    /\ \A p \in ApprovePairs : p[1] = owner => allowances[p] = Zero
    /\ \E p \in ApprovePairs : allowances[p] # Zero

\* C19 as stated: mint checks the owner's authorization before the paused
\* flag; a mint made while the contract is paused and not authorized by the
\* owner fails with Unauthorized, so no such call ends with ContractPaused.
C19_MintChecksOwnerBeforePause ==
    [][(paused_flag /\ call'.op = "mint" /\ owner # None) =>
       \A account \in Addrs, amount \in Amounts, signer \in Addrs :
          ( /\ signer # owner
            /\ Invoke("mint", amount, mint(Storage, account, amount, signer)) )
          => call'.err = "Unauthorized"]_vars

\* C19 amended: mint checks the paused flag before the owner's
\* authorization; a mint made while the contract is paused and not
\* authorized by the owner fails with ContractPaused, whatever its arguments,
\* and changes nothing, so a non-owner observes ContractPaused, never
\* Unauthorized, from mint on the paused contract.
C19_MintChecksPauseBeforeOwner ==
    [][(paused_flag /\ call'.op = "mint" /\ owner # None) =>
       \A account \in Addrs, amount \in Amounts, signer \in Addrs :
          ( /\ signer # owner
            /\ Invoke("mint", amount, mint(Storage, account, amount, signer)) )
          => /\ call'.err = "ContractPaused"
             /\ UNCHANGED StoreVars]_vars

\* A mint of a positive amount has failed with ContractPaused on the paused
\* contract, which has an owner.
C19_Witness ==
    /\ call = Call("mint", "ContractPaused", TRUE)
    /\ paused_flag
    /\ owner # None

\* The addresses whose authorization passes the owner check in the current
\* state.
PassOwnerCheck == {a \in Addrs : enforce_owner_auth(Storage, a).err = "Ok"}

\* The errors of a failed owner check.
OwnerCheckErrors == {"Unauthorized", "OwnerNotSet"}

\* C20 as stated: when a transfer of ownership from O to N completes, then in
\* the state it leaves every mint, pause, unpause and upgrade authorized only
\* by O fails with Unauthorized, the same calls authorized by N pass the owner
\* check, and at most one address passes the owner check.
C20_PrivilegeFollowsOwner ==
    [][(call' = Call("accept_ownership", "Ok", FALSE) /\ owner' # owner) =>
       /\ \A account \in Addrs, amount \in Amounts :
             mint(Storage', account, amount, owner).err = "Unauthorized"
       /\ \A caller \in Addrs :
             /\ pause(Storage', caller, owner).err = "Unauthorized"
             /\ unpause(Storage', caller, owner).err = "Unauthorized"
             /\ \A h \in WasmHashes :
                   upgrade(Storage', h, caller, owner).err = "Unauthorized"
       /\ PassOwnerCheck' = {owner'}]_vars

\* C20 amended: a completed transfer of ownership makes the pending address
\* N the stored owner; and in every state with a stored owner N, for every
\* other address O, every pause, unpause and upgrade authorized only by O
\* fails with Unauthorized, every mint authorized only by O fails with
\* Unauthorized on the unpaused contract and with ContractPaused on the
\* paused one, none of these calls fails the owner check when N authorizes
\* it, and N is the only address that passes the owner check.  This lasts
\* for as long as N stays the stored owner.
C20_PrivilegeFollowsStoredOwner ==
    /\ []((wasm = ColibriWasm /\ owner # None) =>
           /\ \A O \in Addrs \ {owner}, caller \in Addrs :
                 /\ \A account \in Addrs, amount \in Amounts :
                       mint(Storage, account, amount, O).err =
                           IF paused_flag THEN "ContractPaused"
                                          ELSE "Unauthorized"
                 /\ pause(Storage, caller, O).err = "Unauthorized"
                 /\ unpause(Storage, caller, O).err = "Unauthorized"
                 /\ \A h \in WasmHashes :
                       upgrade(Storage, h, caller, O).err = "Unauthorized"
           /\ \A caller \in Addrs :
                 /\ \A account \in Addrs, amount \in Amounts :
                       mint(Storage, account, amount, owner).err
                           \notin OwnerCheckErrors
                 /\ pause(Storage, caller, owner).err \notin OwnerCheckErrors
                 /\ unpause(Storage, caller, owner).err \notin OwnerCheckErrors
                 /\ \A h \in WasmHashes :
                       upgrade(Storage, h, caller, owner).err = "Ok"
           /\ PassOwnerCheck = {owner})
    /\ [][call' = Call("accept_ownership", "Ok", FALSE)
              => /\ pending_owner # None
                 /\ owner' = pending_owner
                 /\ pending_owner' = None]_vars

\* Ownership has just been accepted on the paused contract.
C20_Witness ==
    /\ call = Call("accept_ownership", "Ok", FALSE)
    /\ paused_flag
    /\ owner # None
    /\ pending_owner = None
=============================================================================
